---------------------------- MODULE Spec2Model ----------------------------
(***************************************************************************)
(* twofabackup (src/twofabackup/main.py): a vault of 2FA backup codes.     *)
(* One sqlite table `servicecodes` shared by every invocation of the       *)
(* program, and a Fernet engine built afresh by each invocation.           *)
(*                                                                         *)
(* An invocation is one run of main(): cli_options, create_db and then     *)
(* either input_in_db ("add") or decrypt_all (the default command).        *)
(* Invocations are separate operating-system processes; each sqlite        *)
(* statement runs in its own connection and transaction, so a statement is *)
(* one atomic step and the steps of different invocations interleave.      *)
(***************************************************************************)
EXTENDS Integers, Sequences, FiniteSets, TLC

\* ------------------------------------------------------------------ bounds
\* Invocations of the program over the life of one vault file.
MaxInvocations == 3
\* Processes that may run the program at the same time.
Procs == {"p1", "p2"}
\* Values of `add -n`.
Names == {"github", "gitlab"}
\* argparse's None for an absent `add -d`.
NoDescription == "None"
\* Characters of the input file; whitespace is what str.strip() removes.
Whitespace == {" "}
Chars == {"1"} \cup Whitespace
\* Values of `add -d` and `add -f`: a description or none, and a file with
\* no whitespace, with whitespace inside, and with whitespace around.
AddInputs ==
    { [description |-> NoDescription, file |-> <<"1">>],
      [description |-> NoDescription, file |-> <<"1", " ", "1">>],
      [description |-> "personal", file |-> <<" ", "1", " ">>] }

\* Keys: the 32-byte url-safe base64 strings Fernet accepts, and any other
\* string the operator may type at the prompt.
ValidKeys == {"K1", "K2"}
MalformedKeys == {"not-a-key"}
TypedKeys == ValidKeys \cup MalformedKeys

\* -------------------------------------------------------------- pure parts
\* str.lstrip(): drop the leading whitespace.
RECURSIVE LStrip(_)
LStrip(s) ==
    IF s # <<>> /\ Head(s) \in Whitespace THEN LStrip(Tail(s)) ELSE s

\* str.rstrip(): drop the trailing whitespace.
RECURSIVE RStrip(_)
RStrip(s) ==
    IF s # <<>> /\ s[Len(s)] \in Whitespace
    THEN RStrip(SubSeq(s, 1, Len(s) - 1))
    ELSE s

\* A read that forgets the leading whitespace (str.rstrip for str.strip).
ReadTextRStripOnly(file) == RStrip(file)

\* Path(args.file.name).read_text(encoding="utf-8").strip()
ReadTextStrip(file) == LStrip(RStrip(file))

\* UTF-8 code of a character of the file (ASCII: one byte each).
Ord(c) == IF c = "1" THEN 49 ELSE 32
Chr(b) == IF b = 49 THEN "1" ELSE " "

\* str.encode() and bytes.decode()
Utf8Encode(s) == [i \in 1..Len(s) |-> Ord(s[i])]
Utf8Decode(b) == [i \in 1..Len(b) |-> Chr(b[i])]

\* Fernet(key): ValueError unless the key is 32 url-safe base64 bytes.
FernetKeyAcceptsAll(k) == TRUE

FernetKeyOK(k) == k \in ValidKeys

\* Fernet.encrypt: a token authenticated under the signing half of the key.
\* The token is opaque to the program; the model keeps what decrypt checks.
FernetEncrypt(k, data) == [signed_by |-> k, plaintext |-> data]

\* A decrypt that does not verify the token's signature.
FernetDecryptUnverified(k, token) ==
    [InvalidToken |-> FALSE, plaintext |-> token.plaintext]

\* Fernet.decrypt: raises InvalidToken unless the token was made with this
\* key, and returns no plaintext when it raises.
FernetDecrypt(k, token) ==
    IF token.signed_by = k
    THEN [InvalidToken |-> FALSE, plaintext |-> token.plaintext]
    ELSE [InvalidToken |-> TRUE, plaintext |-> <<>>]

\* KeyHolder.encrypt_codes
EncryptCodes(k, clear_codes) == FernetEncrypt(k, Utf8Encode(clear_codes))

\* The branch of fernet_factory that generates: count_entries_db() == 0.
GenerateWhenAtMostOne(count) == count <= 1

GenerateBranch(count) == count = 0

\* The guard of decrypt_all: count_entries_db() < 1.
EmptyVaultNever(count) == count < 0

EmptyVault(count) == count < 1

\* service_name TEXT NOT NULL UNIQUE: the insert violates the constraint.
UniqueNotEnforced(rows, name) == FALSE

UniqueViolation(rows, name) ==
    \E i \in 1..Len(rows) : rows[i].service_name = name

\* `if not row.encrypted_backup_codes`: a NULL or empty blob.
NoBlob == [signed_by |-> "NULL", plaintext |-> <<>>]
BlobMissing(blob) == blob = NoBlob

\* ------------------------------------------------------------------- state
VARIABLES
    schema,           \* the table servicecodes exists
    db,               \* rows of servicecodes, in rowid order
    clock,            \* invocations started so far; datetime.now() reads it
    pc,               \* where each process is
    func,             \* args.func
    args,             \* args.name, args.description, the text of args.file
    keysrc,           \* which of generate_new_key / ask_key_from_user ran
    keycount,         \* what count_entries_db() returned to fernet_factory
    key,              \* fernet_factory's local `key`
    engine,           \* KeyHolder.engine: the key the Fernet engine holds
    encrypted_codes,  \* input_in_db's local
    db_response,      \* decrypt_all's local
    printed,          \* what printing_console has printed
    errors,           \* what error_console has printed
    uncaught,         \* the exception that left main() uncaught
    status            \* running, or the exit status

vars == <<schema, db, clock, pc, func, args, keysrc, keycount, key, engine,
          encrypted_codes, db_response, printed, errors, uncaught, status>>

shared == <<schema, db, clock>>

NoKey == "no key"
NoArgs == [name |-> "", description |-> NoDescription, file |-> <<>>]

InvalidKey001 == "Invalid key! #001"
InvalidKey002 == "Invalid key! #002"
AddEntriesFirst == "Add new entries to db first."
IntegrityError == "sqlite3.IntegrityError"
ValueError == "ValueError"
NoException == "none"

Init ==
    /\ schema = FALSE
    /\ db = <<>>
    /\ clock = 0
    /\ pc = [p \in Procs |-> "idle"]
    /\ func = [p \in Procs |-> "none"]
    /\ args = [p \in Procs |-> NoArgs]
    /\ keysrc = [p \in Procs |-> "none"]
    /\ keycount = [p \in Procs |-> 0]
    /\ key = [p \in Procs |-> NoKey]
    /\ engine = [p \in Procs |-> NoKey]
    /\ encrypted_codes = [p \in Procs |-> NoBlob]
    /\ db_response = [p \in Procs |-> <<>>]
    /\ printed = [p \in Procs |-> <<>>]
    /\ errors = [p \in Procs |-> <<>>]
    /\ uncaught = [p \in Procs |-> NoException]
    /\ status = [p \in Procs |-> "running"]

\* The process is not in the middle of an invocation.
AtRest(p) == pc[p] \in {"idle", "exited"}

\* A fresh process: nothing of an earlier invocation survives but the file.
Fresh(p, f, a) ==
    /\ pc' = [pc EXCEPT ![p] = "create_db"]
    /\ func' = [func EXCEPT ![p] = f]
    /\ args' = [args EXCEPT ![p] = a]
    /\ keysrc' = [keysrc EXCEPT ![p] = "none"]
    /\ keycount' = [keycount EXCEPT ![p] = 0]
    /\ key' = [key EXCEPT ![p] = NoKey]
    /\ engine' = [engine EXCEPT ![p] = NoKey]
    /\ encrypted_codes' = [encrypted_codes EXCEPT ![p] = NoBlob]
    /\ db_response' = [db_response EXCEPT ![p] = <<>>]
    /\ printed' = [printed EXCEPT ![p] = <<>>]
    /\ errors' = [errors EXCEPT ![p] = <<>>]
    /\ uncaught' = [uncaught EXCEPT ![p] = NoException]
    /\ status' = [status EXCEPT ![p] = "running"]
    /\ clock' = clock + 1
    /\ UNCHANGED <<schema, db>>

\* sys.exit / SystemExit(1) / an exception out of main().
Exit(p, st, exc) ==
    /\ pc' = [pc EXCEPT ![p] = "exited"]
    /\ status' = [status EXCEPT ![p] = st]
    /\ uncaught' = [uncaught EXCEPT ![p] = exc]

\* cli_options: `twofabackup add -n NAME [-d DESCRIPTION] -f FILE`
StartAdd(p) ==
    /\ AtRest(p)
    /\ clock < MaxInvocations
    /\ \E n \in Names, i \in AddInputs :
          Fresh(p, "input_in_db",
                [name |-> n, description |-> i.description, file |-> i.file])

\* cli_options: `twofabackup` (set_defaults(func=decrypt_all))
StartList(p) ==
    /\ AtRest(p)
    /\ clock < MaxInvocations
    /\ Fresh(p, "decrypt_all", NoArgs)

\* create_db: CREATE TABLE IF NOT EXISTS servicecodes
CreateDb(p) ==
    /\ pc[p] = "create_db"
    /\ schema' = TRUE
    /\ pc' = [pc EXCEPT ![p] =
                IF func[p] = "input_in_db" THEN "fernet_factory" ELSE "count"]
    /\ UNCHANGED <<db, clock, func, args, keysrc, keycount, key, engine,
                   encrypted_codes, db_response, printed, errors, uncaught,
                   status>>

\* count_entries_db: SELECT COUNT() FROM servicecodes
count_entries_db == Len(db)

\* decrypt_all, its guard
DecryptAllGuard(p) ==
    /\ pc[p] = "count"
    /\ schema
    /\ IF EmptyVault(count_entries_db)
       THEN /\ errors' = [errors EXCEPT ![p] = Append(@, AddEntriesFirst)]
            /\ Exit(p, "exit1", NoException)
       ELSE /\ pc' = [pc EXCEPT ![p] = "fernet_factory"]
            /\ UNCHANGED <<errors, uncaught, status>>
    /\ UNCHANGED <<shared, func, args, keysrc, keycount, key, engine,
                   encrypted_codes, db_response, printed>>

\* KeyHolder.__init__ / fernet_factory with the key k: generated when the
\* table is empty, typed by the operator otherwise.
FernetFactory(p) ==
    /\ pc[p] = "fernet_factory"
    /\ schema
    /\ LET count == count_entries_db
           gen == GenerateBranch(count)
       IN \E k \in (IF gen THEN ValidKeys ELSE TypedKeys) :
            /\ keycount' = [keycount EXCEPT ![p] = count]
            /\ keysrc' = [keysrc EXCEPT ![p] =
                            IF gen THEN "generated" ELSE "prompted"]
            /\ key' = [key EXCEPT ![p] = k]
            /\ printed' = [printed EXCEPT ![p] =
                  IF gen THEN Append(@, [kind |-> "key", key |-> k]) ELSE @]
            /\ IF FernetKeyOK(k)
               THEN /\ engine' = [engine EXCEPT ![p] = k]
                    /\ pc' = [pc EXCEPT ![p] =
                                IF func[p] = "input_in_db"
                                THEN "encrypt" ELSE "select"]
                    /\ UNCHANGED <<errors, uncaught, status>>
               ELSE /\ errors' = [errors EXCEPT ![p] = Append(@, InvalidKey001)]
                    /\ Exit(p, "exit1", NoException)
                    /\ UNCHANGED engine
    /\ UNCHANGED <<shared, func, args, encrypted_codes, db_response>>

\* input_in_db: read the file, strip it, encrypt it
Encrypt(p) ==
    /\ pc[p] = "encrypt"
    /\ encrypted_codes' = [encrypted_codes EXCEPT ![p] =
                             EncryptCodes(engine[p], ReadTextStrip(args[p].file))]
    /\ pc' = [pc EXCEPT ![p] = "insert"]
    /\ UNCHANGED <<shared, func, args, keysrc, keycount, key, engine,
                   db_response, printed, errors, uncaught, status>>

\* input_in_db: INSERT INTO servicecodes, in its own transaction
Insert(p) ==
    /\ pc[p] = "insert"
    /\ IF UniqueViolation(db, args[p].name)
       THEN /\ Exit(p, "exit1", IntegrityError)
            /\ UNCHANGED <<db, printed>>
       ELSE /\ db' = Append(db, [id |-> Len(db) + 1,
                                 service_name |-> args[p].name,
                                 description |-> args[p].description,
                                 encrypted_backup_codes |-> encrypted_codes[p],
                                 date_added |-> clock])
            /\ printed' = [printed EXCEPT ![p] =
                  Append(@, [kind |-> "added", name |-> args[p].name])]
            /\ Exit(p, "exit0", NoException)
    /\ UNCHANGED <<schema, clock, func, args, keysrc, keycount, key, engine,
                   encrypted_codes, db_response, errors>>

\* ServiceCodes.servicecodes_factory: a row as a ServiceCodes object
servicecodes_factory(row) ==
    [id |-> row.id, service_name |-> row.service_name,
     description |-> row.description,
     encrypted_backup_codes |-> row.encrypted_backup_codes,
     date_added |-> row.date_added, decrypted_backup_codes |-> <<>>]

\* decrypt_all: SELECT ... FROM servicecodes, fetchall
SelectAll(p) ==
    /\ pc[p] = "select"
    /\ db_response' = [db_response EXCEPT ![p] =
                         [i \in 1..Len(db) |-> servicecodes_factory(db[i])]]
    /\ pc' = [pc EXCEPT ![p] = "rows"]
    /\ UNCHANGED <<shared, func, args, keysrc, keycount, key, engine,
                   encrypted_codes, printed, errors, uncaught, status>>

\* The panels printed so far: one per row the loop has finished.
Panels(p) == SelectSeq(printed[p], LAMBDA o : o.kind = "panel")

\* KeyHolder.decrypt_item, when the token authenticates
DecryptItem(k, data) == Utf8Decode(FernetDecrypt(k, data).plaintext)

\* decrypt_all: one turn of `for row in db_response`, or its end
DecryptRow(p) ==
    /\ pc[p] = "rows"
    /\ LET i == Len(Panels(p)) + 1
       IN IF i > Len(db_response[p])
          THEN /\ Exit(p, "exit0", NoException)
               /\ UNCHANGED <<db_response, printed, errors>>
          ELSE LET row == db_response[p][i]
               IN IF BlobMissing(row.encrypted_backup_codes)
                  THEN /\ Exit(p, "exit1", ValueError)
                       /\ UNCHANGED <<db_response, printed, errors>>
                  ELSE IF FernetDecrypt(engine[p], row.encrypted_backup_codes)
                            .InvalidToken
                  THEN /\ errors' = [errors EXCEPT ![p] =
                                       Append(@, InvalidKey002)]
                       /\ Exit(p, "exit1", NoException)
                       /\ UNCHANGED <<db_response, printed>>
                  ELSE LET shown == [row EXCEPT !.decrypted_backup_codes =
                                       DecryptItem(engine[p],
                                                   row.encrypted_backup_codes)]
                       IN /\ db_response' = [db_response EXCEPT ![p][i] = shown]
                          /\ printed' = [printed EXCEPT ![p] =
                                Append(@, [kind |-> "panel", row |-> shown])]
                          /\ UNCHANGED <<pc, errors, uncaught, status>>
    /\ UNCHANGED <<shared, func, args, keysrc, keycount, key, engine,
                   encrypted_codes>>

Step(p) ==
    \/ CreateDb(p)
    \/ DecryptAllGuard(p)
    \/ FernetFactory(p)
    \/ Encrypt(p)
    \/ Insert(p)
    \/ SelectAll(p)
    \/ DecryptRow(p)

\* Invocations on one vault file by any number of terminals at once.
Next == \E p \in Procs : StartAdd(p) \/ StartList(p) \/ Step(p)

Spec == Init /\ [][Next]_vars

\* One terminal: an invocation starts only when no other is running.
Alone(p) == \A q \in Procs \ {p} : AtRest(q)

NextSeq ==
    \E p \in Procs :
        \/ Alone(p) /\ StartAdd(p)
        \/ Alone(p) /\ StartList(p)
        \/ Step(p)

SpecSeq == Init /\ [][NextSeq]_vars

\* ------------------------------------------------------------ the claims
\* An add that inserted its row and exited 0.
Added(p) == func[p] = "input_in_db" /\ pc[p] = "exited" /\ status[p] = "exit0"

\* A process running, or having run, decrypt_all.
Listing(p) == func[p] = "decrypt_all"

\* The rows of a sequence of rows that carry the service name n.
Named(rows, n) == {i \in 1..Len(rows) : rows[i].service_name = n}

\* The key a stored row's payload was encrypted under.
RowKey(row) == row.encrypted_backup_codes.signed_by

\* The step is one that takes p out of the program location l.
Leaves(p, l) == pc[p] = l /\ pc'[p] # l

\* C1: no two rows ever share a service_name; an add whose name is already
\* stored ends with the uniqueness violation (sqlite3.IntegrityError), and
\* the table is left as it was, one row with that name.
C1_UniqueServiceName ==
    [][ /\ \A i, j \in 1..Len(db') :
              i # j => db'[i].service_name # db'[j].service_name
        /\ \A p \in Procs :
              (Leaves(p, "insert") /\ Named(db, args[p].name) # {})
                 => /\ uncaught'[p] = IntegrityError
                    /\ status'[p] = "exit1"
                    /\ db' = db
                    /\ Cardinality(Named(db', args[p].name)) = 1 ]_vars

C1_Witness ==
    \E p \in Procs :
        /\ uncaught[p] = IntegrityError
        /\ Cardinality(Named(db, args[p].name)) = 1

\* C2: when an invocation acquires its key, it generates one (and does not
\* prompt) exactly if the table is empty at that moment, and prompts (and
\* does not generate) exactly if it is not; decrypt_all never generates.
C2_KeyAcquisitionByCount ==
    [][ \A p \in Procs :
          Leaves(p, "fernet_factory")
             => /\ keysrc'[p] \in {"generated", "prompted"}
                /\ (keysrc'[p] = "generated") <=> (Len(db) = 0)
                /\ (keysrc'[p] = "prompted") <=> (Len(db) > 0)
                /\ keycount'[p] = Len(db)
                /\ (keysrc'[p] = "generated")
                      <=> (printed'[p] = <<[kind |-> "key", key |-> key'[p]]>>)
                /\ Listing(p) => keysrc'[p] = "prompted" ]_vars

C2_Witness ==
    \E p, q \in Procs :
        /\ keysrc[p] = "generated" /\ keycount[p] = 0
        /\ keysrc[q] = "prompted" /\ keycount[q] > 0 /\ Listing(q)

\* C3: decrypt_all on a table with no rows exits 1 with the "add entries
\* first" message, without acquiring a key, without decrypting or printing
\* anything, and leaves the table empty.
C3_EmptyVault ==
    [][ \A p \in Procs :
          (Leaves(p, "count") /\ Len(db) = 0)
             => /\ pc'[p] = "exited"
                /\ status'[p] = "exit1"
                /\ errors'[p] = <<AddEntriesFirst>>
                /\ uncaught'[p] = NoException
                /\ keysrc'[p] = "none"
                /\ key'[p] = NoKey
                /\ engine'[p] = NoKey
                /\ db_response'[p] = <<>>
                /\ printed'[p] = <<>>
                /\ db' = <<>> ]_vars

C3_Witness ==
    \E p \in Procs :
        /\ Listing(p) /\ pc[p] = "exited" /\ status[p] = "exit1"
        /\ errors[p] = <<AddEntriesFirst>>
        /\ keysrc[p] = "none"
        /\ db = <<>>

\* C4: a decrypt_all that ends with the authentication failure (#002) has
\* presented no decrypted payload of any row.
C4_AllOrNothing ==
    \A p \in Procs :
        (Listing(p) /\ errors[p] = <<InvalidKey002>>) => Panels(p) = <<>>

\* C5: decrypting under k2 what was encrypted under another key k1 raises
\* InvalidToken and returns no cleartext; a decrypt_all that meets a row
\* stored under a key other than its own exits 1 with #002, and no panel
\* ever shows a row stored under another key.
C5_WrongKeyRejected ==
    /\ \A k1, k2 \in ValidKeys, i \in AddInputs :
          k1 # k2 =>
             LET r == FernetDecrypt(k2, EncryptCodes(k1, i.file))
             IN r.InvalidToken /\ r.plaintext = <<>>
    /\ \A p \in Procs :
          /\ \A i \in 1..Len(Panels(p)) : RowKey(Panels(p)[i].row) = engine[p]
          /\ (/\ Listing(p) /\ pc[p] = "exited"
              /\ \E i \in 1..Len(db_response[p]) :
                    RowKey(db_response[p][i]) # engine[p])
                => /\ status[p] = "exit1"
                   /\ errors[p] = <<InvalidKey002>>
                   /\ uncaught[p] = NoException

C5_Witness ==
    \E p \in Procs :
        /\ Listing(p) /\ pc[p] = "exited"
        /\ key[p] \in ValidKeys
        /\ Len(db_response[p]) = 1
        /\ RowKey(db_response[p][1]) # engine[p]
        /\ errors[p] = <<InvalidKey002>>

C7_InvalidKeyFatal ==
    [][ \A p \in Procs :
          /\ key'[p] \in MalformedKeys
                => /\ pc'[p] = "exited"
                   /\ status'[p] = "exit1"
                   /\ errors'[p] = <<InvalidKey001>>
                   /\ uncaught'[p] = NoException
                   /\ engine'[p] = NoKey
                   /\ encrypted_codes'[p] = NoBlob
                   /\ db_response'[p] = <<>>
                   /\ printed'[p] = <<>>
                   /\ key[p] \notin MalformedKeys => db' = db
          /\ errors'[p] = <<InvalidKey001>> => key'[p] \in MalformedKeys
          /\ errors'[p] = <<InvalidKey002>> => key'[p] \in ValidKeys
          /\ InvalidKey001 # InvalidKey002 ]_vars

C7_Witness ==
    \E p \in Procs :
        /\ key[p] \in MalformedKeys
        /\ pc[p] = "exited" /\ status[p] = "exit1"
        /\ errors[p] = <<InvalidKey001>>
        /\ Len(db) > 0

\* C8: an add whose service_name is already stored ends in a reported
\* outcome, not in an exception that leaves main() uncaught.
C8_DuplicateReported ==
    \A p \in Procs :
        (/\ func[p] = "input_in_db" /\ pc[p] = "exited"
         /\ engine[p] # NoKey /\ status[p] # "exit0")
            => uncaught[p] = NoException

\* C9: with invocations run one after the other, all stored rows are
\* encrypted under one and the same key.
C9_SingleKey ==
    \A i, j \in 1..Len(db) : RowKey(db[i]) = RowKey(db[j])

\* C10: of the adds that inserted a row, at most one generated its key.
C10_OneGeneratedKey ==
    \A p, q \in Procs :
        (/\ p # q
         /\ Added(p) /\ keysrc[p] = "generated"
         /\ Added(q) /\ keysrc[q] = "generated")
            => FALSE


=============================================================================
